---- MODULE Spec2Model ----
(***************************************************************************)
(* Model of the question-admission engine (guardrails.py) and of the two   *)
(* assistants that gate their retrieval chain with it (main.py,            *)
(* enhanced_interface.py).                                                 *)
(*                                                                         *)
(* Text is modelled by TLA+ strings; Python's str.lower, str.strip, the    *)
(* `in` substring test and re.search are operators over those strings.     *)
(* Floats are modelled exactly as integers in units of 1/Scale.            *)
(***************************************************************************)
EXTENDS Integers, Sequences, FiniteSets, TLC

(***************************************************************************)
(* Bounds of the model.                                                    *)
(***************************************************************************)
\* the largest number of vocabulary fragments joined into one question
MaxWords == 2

\* the number of threads that call one engine, or one assistant, at the same time
MaxThreads == 2

(***************************************************************************)
(* Characters and the string primitives of Python used by the engine.      *)
(***************************************************************************)
CharAt(t, i) == SubSeq(t, i, i)

CharsOf(t) == { CharAt(t, i) : i \in 1..Len(t) }

UpperLetters == "ABCDEFGHIJKLMNOPQRSTUVWXYZÁÀÂÃÉÊÍÓÔÕÚÇ"

LowerLetters == "abcdefghijklmnopqrstuvwxyzáàâãéêíóôõúç"

Digits == "0123456789"

\* \w of a str pattern: letters, digits and the underscore
WordChars == CharsOf(UpperLetters) \cup CharsOf(LowerLetters) \cup CharsOf(Digits) \cup {"_"}

\* the characters str.strip() removes
WhitespaceChars == {" ", "\t", "\n", "\r", "\f"}

LowerChar(c) ==
    IF c \in CharsOf(UpperLetters)
    THEN CharAt(LowerLetters, CHOOSE i \in 1..Len(UpperLetters) : CharAt(UpperLetters, i) = c)
    ELSE c

RECURSIVE Lower(_)
\* str.lower()
Lower(t) ==
    IF t = "" THEN "" ELSE LowerChar(CharAt(t, 1)) \o Lower(SubSeq(t, 2, Len(t)))

\* faulty variant: the text is not stripped at all
Strip_Forgotten(t) == t

\* str.strip(): drop the leading and the trailing whitespace
Strip(t) ==
    LET keep == { i \in 1..Len(t) : CharAt(t, i) \notin WhitespaceChars }
    IN  IF keep = {} THEN ""
        ELSE LET first == CHOOSE i \in keep : \A j \in keep : i <= j
                 last  == CHOOSE i \in keep : \A j \in keep : j <= i
             IN  SubSeq(t, first, last)

\* the literal lit occurs in t starting at index pos
LitAt(t, lit, pos) ==
    /\ pos >= 1
    /\ pos + Len(lit) - 1 <= Len(t)
    /\ SubSeq(t, pos, pos + Len(lit) - 1) = lit

\* faulty variant: k must be a word of t (`k in t.split()`), not a substring
Contains_WholeWord(t, k) ==
    \E i \in 1..(Len(t) - Len(k) + 1) :
        /\ SubSeq(t, i, i + Len(k) - 1) = k
        /\ (i = 1 \/ CharAt(t, i - 1) \in WhitespaceChars)
        /\ (i + Len(k) - 1 = Len(t) \/ CharAt(t, i + Len(k)) \in WhitespaceChars)

\* Python's `k in t` on strings
Contains(t, k) == \E i \in 1..(Len(t) - Len(k) + 1) : LitAt(t, k, i)

(***************************************************************************)
(* re.search for the shape of pattern the engine uses:                     *)
(*     \b ( chain | chain | ... ) [\w*] \b                                 *)
(* where a chain is  group .* group .* ... and a group is an alternation   *)
(* of literals.  A pattern is [chains, wstar]; a chain is a sequence of    *)
(* sets of literals.                                                       *)
(***************************************************************************)
IsWordAt(t, i) == i >= 1 /\ i <= Len(t) /\ CharAt(t, i) \in WordChars

\* \b between the characters b and b+1 (0 = start of text, Len(t) = end)
Boundary(t, b) == IsWordAt(t, b) # IsWordAt(t, b + 1)

\* `.` does not match a newline: .* can span the characters from..to
DotStar(t, from, to) == \A i \in from..to : CharAt(t, i) # "\n"

\* the closing [\w*]\b, the match having consumed the characters up to e
EndOK(t, e, wstar) ==
    \/ Boundary(t, e)
    \/ /\ wstar
       /\ \E m \in e..Len(t) : (\A i \in (e + 1)..m : IsWordAt(t, i)) /\ Boundary(t, m)

RECURSIVE ChainFrom(_, _, _, _, _)
\* group k of the chain matches at index pos and the rest of the chain after it
ChainFrom(t, chain, k, pos, wstar) ==
    \E lit \in chain[k] :
        /\ LitAt(t, lit, pos)
        /\ LET e == pos + Len(lit) - 1
           IN  IF k = Len(chain)
               THEN EndOK(t, e, wstar)
               ELSE \E j \in (e + 1)..Len(t) :
                        DotStar(t, e + 1, j - 1) /\ ChainFrom(t, chain, k + 1, j, wstar)

\* re.search(pattern, t) is not None
Search(p, t) ==
    \E chain \in p.chains : \E i \in 1..Len(t) :
        Boundary(t, i - 1) /\ ChainFrom(t, chain, 1, i, p.wstar)

\* \b(w1|w2|...)\b
Words(S) == [chains |-> { <<S>> }, wstar |-> FALSE]

\* any(re.search(p, t) for p in patterns), patterns a sequence
AnyMatch(patterns, t) == \E i \in 1..Len(patterns) : Search(patterns[i], t)

(***************************************************************************)
(* setup_filters: the keyword and pattern tables of the engine.            *)
(***************************************************************************)
\* self.banking_keywords: category -> list (an entry may occur in two lists)
banking_keywords ==
    << [category |-> "core_banking", keywords |->
          << "banco", "conta", "cartão", "cartao", "transferencia", "transferência",
             "deposito", "depósito", "levantamento", "saque", "saldo", "extrato",
             "emprestimo", "empréstimo", "credito", "crédito", "juros", "taxa",
             "iban", "swift", "atm", "multibanco", "netplus", "quiq", "ussd",
             "mobile banking", "internet banking", "homebank", "agencia", "agência",
             "cheque", "talao", "talão", "ordem", "pagamento" >>],
       [category |-> "products", keywords |->
          << "poupanca", "poupança", "corrente", "prazo", "investimento",
             "seguro", "hipoteca", "veiculo", "veículo", "pessoal", "estudante",
             "pensao", "pensão", "reforma", "salario", "salário", "negocio", "negócio",
             "debito", "débito", "credito", "crédito", "visa", "mastercard" >>],
       [category |-> "services", keywords |->
          << "abertura", "encerramento", "ativacao", "ativação", "bloqueio",
             "desbloqueio", "limite", "comissao", "comissão", "tarifa",
             "documentos", "identificacao", "identificação", "nuit", "bi" >>],
       [category |-> "currencies", keywords |->
          << "metical", "mt", "usd", "eur", "rand", "zar", "moeda" >>],
       [category |-> "banks", keywords |->
          << "standard bank", "bcm", "bci", "bim", "fnb", "nedbank",
             "banco terra", "socremo", "bancabc", "ecobank", "access bank" >>] >>

\* self.offensive_patterns
offensive_patterns ==
    << Words({"merda", "caralho", "foda", "puta", "cu", "porra", "idiota", "estupido", "estúpido"}),
       [chains |-> { << {"racista", "xenofob", "homofob", "machista"} >> }, wstar |-> TRUE],
       Words({"matar", "morte", "violencia", "violência", "ameaca", "ameaça", "destruir"}),
       Words({"sexo", "sexual", "porn", "nudez", "intimo", "íntimo"}) >>

\* rude_patterns of check_politeness
rude_patterns ==
    << [chains |-> { << {"idiota", "burro", "estupido", "estúpido"} >>,
                     << {"cala"}, {"boca"} >>, << {"shut"}, {"up"} >> }, wstar |-> FALSE],
       [chains |-> { << {"nao", "não"}, {"quero"} >>,
                     << {"nao", "não"}, {"me"}, {"importa"} >> }, wstar |-> FALSE],
       Words({"mentira", "lies", "fake", "falso"}) >>

\* self.off_topic_patterns, in the insertion order of the dict
off_topic_patterns ==
    << [category |-> "politics", patterns |->
          << Words({"politica", "política", "governo", "presidente", "ministro", "eleicao",
                    "eleição", "partido", "frelimo", "renamo", "mdm"}),
             Words({"corrupcao", "corrupção", "escandalo", "escândalo"}) >>],
       [category |-> "health", patterns |->
          << Words({"doenca", "doença", "medicina", "medico", "médico", "hospital", "covid",
                    "vacina", "tratamento"}),
             Words({"sintoma", "diagnostico", "diagnóstico", "remedio", "remédio"}) >>],
       [category |-> "sports", patterns |->
          << Words({"futebol", "desporto", "jogo", "equipa", "equipe", "campeonato", "liga",
                    "jogador"}) >>],
       [category |-> "technology", patterns |->
          << Words({"smartphone", "computador", "software", "app", "android", "iphone",
                    "windows", "linux"}) >>],
       [category |-> "food", patterns |->
          << Words({"comida", "restaurante", "receita", "cozinha", "prato", "bebida"}) >>],
       [category |-> "travel", patterns |->
          << Words({"viagem", "turismo", "hotel", "voo", "aeroporto", "ferias", "férias"}) >>] >>

\* self.spam_patterns
spam_patterns ==
    << Words({"ganhe", "win", "gratis", "grátis", "free", "promocao", "promoção", "desconto",
              "oferta"}),
       Words({"clique", "click", "link", "url", "website", "site"}),
       Words({"venda", "vende", "compra", "negocio", "negócio", "oportunidade"}) >>

\* promotional_phrases of check_spam_or_promotional
promotional_phrases ==
    << [chains |-> { << {"melhor", "best"}, {"banco", "bank", "conta", "account"} >> },
        wstar |-> FALSE],
       [chains |-> { << {"recomenda", "recommend"}, {"banco", "bank"} >> }, wstar |-> FALSE],
       [chains |-> { << {"comparar", "compare"}, {"bancos"} >> }, wstar |-> FALSE] >>

\* self.inappropriate_patterns
inappropriate_patterns ==
    << [chains |-> { << {"senha", "password", "pin", "codigo", "código", "numero"} >>,
                     << {"número"}, {"conta"} >>, << {"nuit"}, {"completo"} >> },
        wstar |-> FALSE],
       [chains |-> { << {"roubar", "furtar", "fraude", "golpe", "esquema"} >>,
                     << {"lavagem"}, {"dinheiro"} >> }, wstar |-> FALSE],
       Words({"hackear", "burlar", "contornar", "bypass", "administrador", "admin", "root"}) >>

\* sensitive_requests of check_inappropriate_content
sensitive_requests ==
    << [chains |-> { << {"minha", "meu", "meus", "minhas"},
                        {"senha", "pin", "codigo", "código"} >> }, wstar |-> FALSE],
       [chains |-> { << {"qual", "diga"}, {"senha", "pin"} >>,
                     << {"qual", "diga"}, {"numero"}, {"conta"} >>,
                     << {"me"}, {"conte"}, {"senha", "pin"} >>,
                     << {"me"}, {"conte"}, {"numero"}, {"conta"} >> }, wstar |-> FALSE] >>

\* self.test_patterns
test_patterns ==
    << Words({"teste", "test", "debug", "erro", "error", "falha", "bug"}),
       Words({"ignore", "esqueça", "forget", "previous", "anterior", "instructions",
              "instrucoes", "instruções"}),
       [chains |-> { << {"roleplay", "pretend", "finja", "atue", "personagem"} >>,
                     << {"role"}, {"play"} >> }, wstar |-> FALSE] >>

\* injection_patterns of check_system_manipulation
injection_patterns ==
    << [chains |-> { << {"ignore", "esqueça"}, {"instrucoes", "instruções", "instructions"} >> },
        wstar |-> FALSE],
       [chains |-> { << {"you are", "voce é", "você é"}, {"not", "nao", "não"} >> },
        wstar |-> FALSE],
       Words({"pretend", "finja", "act like", "atue como"}) >>

(***************************************************************************)
(* Numbers.  The engine's floats are sums and differences of hundredths    *)
(* and of multiples of 10/total_keywords; they are modelled exactly, as    *)
(* integers in units of 1/Scale with Scale = 100 * max(total_keywords, 1). *)
(***************************************************************************)
Max2(a, b) == IF a >= b THEN a ELSE b

Min2(a, b) == IF a <= b THEN a ELSE b

\* one entry per (category, position) the loop of check_banking_relevance visits
KeywordEntries ==
    UNION { { <<c, i>> : i \in 1..Len(banking_keywords[c].keywords) } :
              c \in 1..Len(banking_keywords) }

\* faulty variant: twice the number of entries
total_keywords_Doubled == 2 * Cardinality(KeywordEntries)

\* total_keywords after that loop
total_keywords == Cardinality(KeywordEntries)

Scale == 100 * Max2(total_keywords, 1)

\* the float h/100
Hundredths(h) == h * Max2(total_keywords, 1)

\* f"{x:.2f}" of a float in [0, 1]: x rounded to the nearest hundredth
Format2f(x) ==
    LET h == (2 * x * 100 + Scale) \div (2 * Scale)
    IN  CharAt(Digits, (h \div 100) + 1) \o "." \o
        CharAt(Digits, ((h \div 10) % 10) + 1) \o CharAt(Digits, (h % 10) + 1)

(***************************************************************************)
(* FilterResult and GuardrailResponse.                                     *)
(***************************************************************************)
ALLOWED == "allowed"

BLOCKED_OFFENSIVE == "blocked_offensive"

BLOCKED_OFF_TOPIC == "blocked_off_topic"

BLOCKED_INAPPROPRIATE == "blocked_inappropriate"

BLOCKED_SPAM == "blocked_spam"

REQUIRES_REVIEW == "requires_review"

FilterResult ==
    {ALLOWED, BLOCKED_OFFENSIVE, BLOCKED_OFF_TOPIC, BLOCKED_INAPPROPRIATE, BLOCKED_SPAM,
     REQUIRES_REVIEW}

\* Python's None where a string is optional
None == "None"

\* the dataclass; `checks` is instrumentation: the check methods called, in order
GuardrailResponse(result, confidence, reason, suggested_alternative, detected_issues, checks) ==
    [result |-> result, confidence |-> confidence, reason |-> reason,
     suggested_alternative |-> suggested_alternative, detected_issues |-> detected_issues,
     checks |-> checks]

(***************************************************************************)
(* The checks of BankingContentGuardrails.                                 *)
(***************************************************************************)
\* faulty variant: the loop over rude_patterns is missing
check_politeness_OffensiveOnly(text) ==
    IF AnyMatch(offensive_patterns, Lower(text))
    THEN [ok |-> FALSE, reason |-> "Linguagem ofensiva detectada"]
    ELSE [ok |-> TRUE, reason |-> ""]

\* faulty variant: the loop over rude_patterns runs before the offensive one
check_politeness_RudeFirst(text) ==
    LET text_lower == Lower(text)
    IN  IF AnyMatch(rude_patterns, text_lower)
        THEN [ok |-> FALSE, reason |-> "Linguagem inadequada ou desrespeitosa"]
        ELSE IF AnyMatch(offensive_patterns, text_lower)
        THEN [ok |-> FALSE, reason |-> "Linguagem ofensiva detectada"]
        ELSE [ok |-> TRUE, reason |-> ""]

check_politeness(text) ==
    LET text_lower == Lower(text)
    IN  IF AnyMatch(offensive_patterns, text_lower)
        THEN [ok |-> FALSE, reason |-> "Linguagem ofensiva detectada"]
        ELSE IF AnyMatch(rude_patterns, text_lower)
        THEN [ok |-> FALSE, reason |-> "Linguagem inadequada ou desrespeitosa"]
        ELSE [ok |-> TRUE, reason |-> ""]

\* banking_score after the loop: the entries of the tables that occur in the text
\* faulty variant: a keyword listed in two categories is counted once
banking_score_Distinct(text_lower) ==
    Cardinality({ banking_keywords[e[1]].keywords[e[2]] :
                    e \in { f \in KeywordEntries :
                              Contains(text_lower, banking_keywords[f[1]].keywords[f[2]]) } })

banking_score(text_lower) ==
    Cardinality({ e \in KeywordEntries :
                    Contains(text_lower, banking_keywords[e[1]].keywords[e[2]]) })

\* faulty variant: a context word that is no keyword
banking_contexts_Sports ==
    << "banco", "conta", "cartão", "transferencia", "deposito",
       "saldo", "emprestimo", "credito", "iban", "atm", "taxa",
       "cheque", "talão", "pagamento", "futebol" >>

banking_contexts ==
    << "banco", "conta", "cartão", "transferencia", "deposito",
       "saldo", "emprestimo", "credito", "iban", "atm", "taxa",
       "cheque", "talão", "pagamento" >>

has_banking_context(text_lower) ==
    \E i \in 1..Len(banking_contexts) : Contains(text_lower, banking_contexts[i])

\* faulty variant: the sum is not cut at 1.0
relevance_score_Unclamped(text_lower) ==
    banking_score(text_lower) * 1000
    + (IF has_banking_context(text_lower) THEN Hundredths(50) ELSE 0)

\* min(keyword_relevance + context_bonus, 1.0)
relevance_score(text_lower) ==
    LET keyword_relevance == banking_score(text_lower) * 1000
        context_bonus == IF has_banking_context(text_lower) THEN Hundredths(50) ELSE 0
    IN  Min2(keyword_relevance + context_bonus, Hundredths(100))

\* the off-topic categories with a matching pattern, by position in the dict
OffTopicHits(text_lower) ==
    { c \in 1..Len(off_topic_patterns) : AnyMatch(off_topic_patterns[c].patterns, text_lower) }

\* faulty variant: the loop over the categories goes on after a match, so that the
\* last matching category is the one named
check_banking_relevance_LastCategory(text) ==
    LET text_lower == Lower(text)
        score == relevance_score(text_lower)
        hits == OffTopicHits(text_lower)
    IN  IF has_banking_context(text_lower) \/ score >= Hundredths(10)
        THEN [ok |-> TRUE, score |-> Max2(score, Hundredths(50)), reason |-> ""]
        ELSE IF hits # {}
        THEN LET last_hit == CHOOSE c \in hits : \A d \in hits : c >= d
             IN  [ok |-> FALSE, score |-> score,
                  reason |-> "Pergunta sobre " \o off_topic_patterns[last_hit].category \o
                             ", não serviços bancários"]
        ELSE IF score < Hundredths(5)
        THEN [ok |-> FALSE, score |-> score,
              reason |-> "Pergunta não relacionada com serviços bancários"]
        ELSE [ok |-> TRUE, score |-> score, reason |-> ""]

\* faulty variant: the failing returns clamp the score as the passing one does
check_banking_relevance_ClampedScore(text) ==
    LET text_lower == Lower(text)
        score == relevance_score(text_lower)
        hits == OffTopicHits(text_lower)
    IN  IF has_banking_context(text_lower) \/ score >= Hundredths(10)
        THEN [ok |-> TRUE, score |-> Max2(score, Hundredths(50)), reason |-> ""]
        ELSE IF hits # {}
        THEN LET first == CHOOSE c \in hits : \A d \in hits : c <= d
             IN  [ok |-> FALSE, score |-> Max2(score, Hundredths(50)),
                  reason |-> "Pergunta sobre " \o off_topic_patterns[first].category \o
                             ", não serviços bancários"]
        ELSE IF score < Hundredths(5)
        THEN [ok |-> FALSE, score |-> Max2(score, Hundredths(50)),
              reason |-> "Pergunta não relacionada com serviços bancários"]
        ELSE [ok |-> TRUE, score |-> score, reason |-> ""]

\* faulty variant: the passing return reports the raw score
check_banking_relevance_NoFloor(text) ==
    LET text_lower == Lower(text)
        score == relevance_score(text_lower)
        hits == OffTopicHits(text_lower)
    IN  IF has_banking_context(text_lower) \/ score >= Hundredths(10)
        THEN [ok |-> TRUE, score |-> score, reason |-> ""]
        ELSE IF hits # {}
        THEN LET first == CHOOSE c \in hits : \A d \in hits : c <= d
             IN  [ok |-> FALSE, score |-> score,
                  reason |-> "Pergunta sobre " \o off_topic_patterns[first].category \o
                             ", não serviços bancários"]
        ELSE IF score < Hundredths(5)
        THEN [ok |-> FALSE, score |-> score,
              reason |-> "Pergunta não relacionada com serviços bancários"]
        ELSE [ok |-> TRUE, score |-> score, reason |-> ""]

check_banking_relevance(text) ==
    LET text_lower == Lower(text)
        score == relevance_score(text_lower)
        hits == OffTopicHits(text_lower)
    IN  IF has_banking_context(text_lower) \/ score >= Hundredths(10)
        THEN [ok |-> TRUE, score |-> Max2(score, Hundredths(50)), reason |-> ""]
        ELSE IF hits # {}
        THEN LET first == CHOOSE c \in hits : \A d \in hits : c <= d
             IN  [ok |-> FALSE, score |-> score,
                  reason |-> "Pergunta sobre " \o off_topic_patterns[first].category \o
                             ", não serviços bancários"]
        ELSE IF score < Hundredths(5)
        THEN [ok |-> FALSE, score |-> score,
              reason |-> "Pergunta não relacionada com serviços bancários"]
        ELSE [ok |-> TRUE, score |-> score, reason |-> ""]

\* faulty variant: the loop over sensitive_requests is missing
check_inappropriate_content_NoSensitive(text) ==
    IF AnyMatch(inappropriate_patterns, Lower(text))
    THEN [ok |-> FALSE, reason |-> "Conteúdo inadequado detectado"]
    ELSE [ok |-> TRUE, reason |-> ""]

check_inappropriate_content(text) ==
    LET text_lower == Lower(text)
    IN  IF AnyMatch(inappropriate_patterns, text_lower)
        THEN [ok |-> FALSE, reason |-> "Conteúdo inadequado detectado"]
        ELSE IF AnyMatch(sensitive_requests, text_lower)
        THEN [ok |-> FALSE, reason |-> "Solicitação de informações sensíveis"]
        ELSE [ok |-> TRUE, reason |-> ""]

\* spam_score after both loops
spam_score(text_lower) ==
    Cardinality({ i \in 1..Len(spam_patterns) : Search(spam_patterns[i], text_lower) })
    + Cardinality({ i \in 1..Len(promotional_phrases) :
                      Search(promotional_phrases[i], text_lower) })

\* faulty variant: the threshold is exclusive
check_spam_or_promotional_Above2(text) ==
    IF spam_score(Lower(text)) > 2
    THEN [ok |-> FALSE, reason |-> "Conteúdo promocional detectado"]
    ELSE [ok |-> TRUE, reason |-> ""]

check_spam_or_promotional(text) ==
    IF spam_score(Lower(text)) >= 2
    THEN [ok |-> FALSE, reason |-> "Conteúdo promocional detectado"]
    ELSE [ok |-> TRUE, reason |-> ""]

\* faulty variant: the loop over injection_patterns is missing
check_system_manipulation_TestOnly(text) ==
    IF AnyMatch(test_patterns, Lower(text))
    THEN [ok |-> FALSE, reason |-> "Tentativa de manipulação do sistema"]
    ELSE [ok |-> TRUE, reason |-> ""]

check_system_manipulation(text) ==
    LET text_lower == Lower(text)
    IN  IF AnyMatch(test_patterns, text_lower)
        THEN [ok |-> FALSE, reason |-> "Tentativa de manipulação do sistema"]
        ELSE IF AnyMatch(injection_patterns, text_lower)
        THEN [ok |-> FALSE, reason |-> "Tentativa de injeção de prompt"]
        ELSE [ok |-> TRUE, reason |-> ""]

\* faulty variant: the off-topic category has no candidate
alternatives_NoOffTopic ==
    [c \in {BLOCKED_OFF_TOPIC, BLOCKED_OFFENSIVE, BLOCKED_INAPPROPRIATE} |->
        CASE c = BLOCKED_OFF_TOPIC -> << >>
          [] c = BLOCKED_OFFENSIVE ->
                << "Como posso contactar o atendimento ao cliente?",
                   "Quais são os horários de funcionamento das agências?" >>
          [] c = BLOCKED_INAPPROPRIATE ->
                << "Como posso verificar o meu saldo de forma segura?",
                   "Quais são os procedimentos de segurança do banco?" >>]

\* the candidate lists of suggest_alternative
alternatives ==
    [c \in {BLOCKED_OFF_TOPIC, BLOCKED_OFFENSIVE, BLOCKED_INAPPROPRIATE} |->
        CASE c = BLOCKED_OFF_TOPIC ->
                << "Quais são as taxas para transferências bancárias?",
                   "Como posso abrir uma conta corrente?",
                   "Quais documentos preciso para solicitar um cartão?",
                   "Como funciona o mobile banking?" >>
          [] c = BLOCKED_OFFENSIVE ->
                << "Como posso contactar o atendimento ao cliente?",
                   "Quais são os horários de funcionamento das agências?" >>
          [] c = BLOCKED_INAPPROPRIATE ->
                << "Como posso verificar o meu saldo de forma segura?",
                   "Quais são os procedimentos de segurança do banco?" >>]

\* random.choice(seq): any element; no value at all (IndexError) for an empty seq
random_choice(seq) == { seq[i] : i \in 1..Len(seq) }

\* faulty variant: the draw may also yield no suggestion
suggest_alternative_Optional(original_question, filter_result) ==
    IF filter_result \in DOMAIN alternatives
    THEN random_choice(alternatives[filter_result]) \cup { None }
    ELSE { None }

\* faulty variant: every category draws from the off-topic candidates
suggest_alternative_WrongList(original_question, filter_result) ==
    IF filter_result \in DOMAIN alternatives
    THEN random_choice(alternatives[BLOCKED_OFF_TOPIC])
    ELSE { None }

\* the values suggest_alternative can return
suggest_alternative(original_question, filter_result) ==
    IF filter_result \in DOMAIN alternatives
    THEN random_choice(alternatives[filter_result])
    ELSE { None }

(***************************************************************************)
(* validate_question: the responses the call can return for a question     *)
(* (one per candidate random.choice can draw; none when the call raises).  *)
(***************************************************************************)
\* faulty variant: the comparison with the threshold is reversed
FinalStage_Reversed(score, checks) ==
    IF score >= Hundredths(30)
    THEN { GuardrailResponse(REQUIRES_REVIEW, score,
               "Relevância baixa para serviços bancários (score: " \o Format2f(score) \o ")",
               None, <<"low_relevance">>, checks) }
    ELSE { GuardrailResponse(ALLOWED, score, "Pergunta adequada sobre serviços bancários",
               None, << >>, checks) }

\* the last stage: the review threshold on the score of the relevance check
FinalStage(score, checks) ==
    IF score < Hundredths(30)
    THEN { GuardrailResponse(REQUIRES_REVIEW, score,
               "Relevância baixa para serviços bancários (score: " \o Format2f(score) \o ")",
               None, <<"low_relevance">>, checks) }
    ELSE { GuardrailResponse(ALLOWED, score, "Pergunta adequada sobre serviços bancários",
               None, << >>, checks) }

\* faulty variant: the inappropriate-content check runs before the relevance check
validate_question_InappropriateFirst(question) ==
    IF Strip(question) = ""
    THEN { GuardrailResponse(BLOCKED_INAPPROPRIATE, Hundredths(100), "Pergunta vazia",
               None, <<"empty_question">>, << >>) }
    ELSE
    LET politeness == check_politeness(question)
        relevance == check_banking_relevance(question)
        inappropriate == check_inappropriate_content(question)
        spam == check_spam_or_promotional(question)
        manipulation == check_system_manipulation(question)
        c1 == <<"check_politeness">>
        c2 == Append(c1, "check_inappropriate_content")
        c3 == Append(c2, "check_banking_relevance")
        c4 == Append(c3, "check_spam_or_promotional")
        c5 == Append(c4, "check_system_manipulation")
    IN  IF ~politeness.ok
        THEN { GuardrailResponse(BLOCKED_OFFENSIVE, Hundredths(90), politeness.reason,
                   alt, <<"offensive_language">>, c1) :
                   alt \in suggest_alternative(question, BLOCKED_OFFENSIVE) }
        ELSE IF ~inappropriate.ok
        THEN { GuardrailResponse(BLOCKED_INAPPROPRIATE, Hundredths(95), inappropriate.reason,
                   alt, <<"inappropriate_content">>, c2) :
                   alt \in suggest_alternative(question, BLOCKED_INAPPROPRIATE) }
        ELSE IF ~relevance.ok
        THEN { GuardrailResponse(BLOCKED_OFF_TOPIC, Hundredths(100) - relevance.score,
                   IF relevance.reason # "" THEN relevance.reason
                   ELSE "Pergunta não relacionada com serviços bancários",
                   alt, <<"off_topic">>, c3) :
                   alt \in suggest_alternative(question, BLOCKED_OFF_TOPIC) }
        ELSE IF ~spam.ok
        THEN { GuardrailResponse(BLOCKED_SPAM, Hundredths(80), spam.reason,
                   None, <<"spam_promotional">>, c4) }
        ELSE IF ~manipulation.ok
        THEN { GuardrailResponse(BLOCKED_INAPPROPRIATE, Hundredths(90), manipulation.reason,
                   None, <<"system_manipulation">>, c5) }
        ELSE FinalStage(relevance.score, c5)

validate_question(question) ==
    IF Strip(question) = ""
    THEN { GuardrailResponse(BLOCKED_INAPPROPRIATE, Hundredths(100), "Pergunta vazia",
               None, <<"empty_question">>, << >>) }
    ELSE
    LET politeness == check_politeness(question)
        relevance == check_banking_relevance(question)
        inappropriate == check_inappropriate_content(question)
        spam == check_spam_or_promotional(question)
        manipulation == check_system_manipulation(question)
        c1 == <<"check_politeness">>
        c2 == Append(c1, "check_banking_relevance")
        c3 == Append(c2, "check_inappropriate_content")
        c4 == Append(c3, "check_spam_or_promotional")
        c5 == Append(c4, "check_system_manipulation")
    IN  IF ~politeness.ok
        THEN { GuardrailResponse(BLOCKED_OFFENSIVE, Hundredths(90), politeness.reason,
                   alt, <<"offensive_language">>, c1) :
                   alt \in suggest_alternative(question, BLOCKED_OFFENSIVE) }
        ELSE IF ~relevance.ok
        THEN { GuardrailResponse(BLOCKED_OFF_TOPIC, Hundredths(100) - relevance.score,
                   IF relevance.reason # "" THEN relevance.reason
                   ELSE "Pergunta não relacionada com serviços bancários",
                   alt, <<"off_topic">>, c2) :
                   alt \in suggest_alternative(question, BLOCKED_OFF_TOPIC) }
        ELSE IF ~inappropriate.ok
        THEN { GuardrailResponse(BLOCKED_INAPPROPRIATE, Hundredths(95), inappropriate.reason,
                   alt, <<"inappropriate_content">>, c3) :
                   alt \in suggest_alternative(question, BLOCKED_INAPPROPRIATE) }
        ELSE IF ~spam.ok
        THEN { GuardrailResponse(BLOCKED_SPAM, Hundredths(80), spam.reason,
                   None, <<"spam_promotional">>, c4) }
        ELSE IF ~manipulation.ok
        THEN { GuardrailResponse(BLOCKED_INAPPROPRIATE, Hundredths(90), manipulation.reason,
                   None, <<"system_manipulation">>, c5) }
        ELSE FinalStage(relevance.score, c5)

(***************************************************************************)
(* get_blocked_message.                                                    *)
(***************************************************************************)
base_messages ==
    [c \in {BLOCKED_OFFENSIVE, BLOCKED_OFF_TOPIC, BLOCKED_INAPPROPRIATE, BLOCKED_SPAM} |->
        CASE c = BLOCKED_OFFENSIVE ->
                [title |-> "LINGUAGEM INADEQUADA",
                 message |-> "Por favor, use uma linguagem respeitosa e profissional.",
                 suggestion |-> "Reformule sua pergunta de forma educada."]
          [] c = BLOCKED_OFF_TOPIC ->
                [title |-> "APENAS TEMAS BANCÁRIOS",
                 message |-> "Este assistente responde apenas sobre serviços bancários de Moçambique.",
                 suggestion |-> "Faça uma pergunta sobre contas, cartões, transferências ou outros serviços bancários."]
          [] c = BLOCKED_INAPPROPRIATE ->
                [title |-> "CONTEÚDO INADEQUADO",
                 message |-> "Não posso processar este tipo de solicitação.",
                 suggestion |-> "Faça perguntas sobre procedimentos bancários públicos."]
          [] c = BLOCKED_SPAM ->
                [title |-> "CONTEÚDO PROMOCIONAL",
                 message |-> "Este não é um canal para conteúdo promocional.",
                 suggestion |-> "Faça perguntas sobre informações bancárias específicas."]]

\* faulty variant: the example is appended before the lookup, so that the
\* fallback message carries it too
get_blocked_message_ExampleInFallback(filter_result, reason, suggested_alternative) ==
    LET example == IF suggested_alternative # None /\ suggested_alternative # ""
                   THEN "\n\n**Exemplo:** " \o suggested_alternative ELSE ""
    IN  IF filter_result \notin DOMAIN base_messages
        THEN "Não posso processar esta pergunta. Tente uma pergunta sobre serviços bancários."
             \o example
        ELSE LET msg_data == base_messages[filter_result]
                 response == msg_data.title \o "\n\n" \o msg_data.message \o
                             "\n\n**Sugestão:** " \o msg_data.suggestion
             IN  response \o example \o
                 "\n\n---\n*Para sua segurança, todas as perguntas são analisadas antes do processamento.*"

get_blocked_message(filter_result, reason, suggested_alternative) ==
    IF filter_result \notin DOMAIN base_messages
    THEN "Não posso processar esta pergunta. Tente uma pergunta sobre serviços bancários."
    ELSE LET msg_data == base_messages[filter_result]
             response == msg_data.title \o "\n\n" \o msg_data.message \o
                         "\n\n**Sugestão:** " \o msg_data.suggestion
             example == IF suggested_alternative # None /\ suggested_alternative # ""
                        THEN "\n\n**Exemplo:** " \o suggested_alternative ELSE ""
         IN  response \o example \o
             "\n\n---\n*Para sua segurança, todas as perguntas são analisadas antes do processamento.*"

\* the parameter names of get_blocked_message
get_blocked_message_params == {"filter_result", "reason", "suggested_alternative"}

\* Python binds a call's keyword arguments to parameter names, or raises TypeError
BindsKeywords(params, keywords) == keywords \subseteq params

(***************************************************************************)
(* mask_pii: five re.sub calls in a row.  A pattern is a set of            *)
(* alternatives (the phone pattern with and without its optional prefix),  *)
(* an alternative a sequence of items, an item \b or a character class     *)
(* repeated min..max times.  In each of the five patterns the classes of   *)
(* neighbouring items are such that the match the greedy quantifiers       *)
(* settle on at a start index is the longest one there.                    *)
(***************************************************************************)
AsciiUpper == CharsOf("ABCDEFGHIJKLMNOPQRSTUVWXYZ")

AsciiLower == CharsOf("abcdefghijklmnopqrstuvwxyz")

\* no upper limit on the repetitions of an item (`+`, `{2,}`)
Many == -1

\* \b
WordBoundary == [boundary |-> TRUE, chars |-> {}, min |-> 0, max |-> 0]

\* [chars]{min,max}
Rep(chars, min, max) == [boundary |-> FALSE, chars |-> chars, min |-> min, max |-> max]

\* [-\s]?
Separator == Rep({"-"} \cup WhitespaceChars, 0, 1)

\* \b\d{4}[-\s]?\d{4}[-\s]?\d{4}[-\s]?\d{4}\b
card_pattern ==
    { << WordBoundary, Rep(CharsOf(Digits), 4, 4), Separator, Rep(CharsOf(Digits), 4, 4),
         Separator, Rep(CharsOf(Digits), 4, 4), Separator, Rep(CharsOf(Digits), 4, 4),
         WordBoundary >> }

\* [a-zA-Z0-9._%+-]+@[a-zA-Z0-9.-]+\.[a-zA-Z]{2,}
email_pattern ==
    { << Rep(AsciiLower \cup AsciiUpper \cup CharsOf(Digits) \cup CharsOf("._%+-"), 1, Many),
         Rep({"@"}, 1, 1),
         Rep(AsciiLower \cup AsciiUpper \cup CharsOf(Digits) \cup CharsOf(".-"), 1, Many),
         Rep({"."}, 1, 1),
         Rep(AsciiLower \cup AsciiUpper, 2, Many) >> }

\* [2-9]\d{2}[-\s]?\d{3}[-\s]?\d{3}
phone_number ==
    << Rep(CharsOf("23456789"), 1, 1), Rep(CharsOf(Digits), 2, 2), Separator,
       Rep(CharsOf(Digits), 3, 3), Separator, Rep(CharsOf(Digits), 3, 3) >>

\* (\+?258[-\s]?)?[2-9]\d{2}[-\s]?\d{3}[-\s]?\d{3}
phone_pattern ==
    { << Rep({"+"}, 0, 1), Rep({"2"}, 1, 1), Rep({"5"}, 1, 1), Rep({"8"}, 1, 1),
         Separator >> \o phone_number,
      phone_number }

\* \b[A-Z]{2}\d{2}[A-Z0-9]{4}\d{7}[A-Z0-9]{1,16}\b
iban_pattern ==
    { << WordBoundary, Rep(AsciiUpper, 2, 2), Rep(CharsOf(Digits), 2, 2),
         Rep(AsciiUpper \cup CharsOf(Digits), 4, 4), Rep(CharsOf(Digits), 7, 7),
         Rep(AsciiUpper \cup CharsOf(Digits), 1, 16), WordBoundary >> }

\* \b\d{9}\b
nuit_pattern == { << WordBoundary, Rep(CharsOf(Digits), 9, 9), WordBoundary >> }

RECURSIVE Run(_, _, _, _)
\* how many characters of the class follow each other from index p, up to max
Run(t, p, chars, max) ==
    IF max = 0 \/ p > Len(t) \/ CharAt(t, p) \notin chars THEN 0
    ELSE 1 + Run(t, p + 1, chars, max - 1)

\* the indices a match can go on from once the item has matched at one of from
Step(t, item, from) ==
    IF item.boundary
    THEN { p \in from : Boundary(t, p - 1) }
    ELSE UNION { { p + n : n \in item.min..Run(t, p, item.chars, item.max) } : p \in from }

RECURSIVE EndsFrom(_, _, _, _)
\* the indices after the matches of the items k.. that start at one of from
EndsFrom(t, items, k, from) ==
    IF k > Len(items) \/ from = {} THEN from
    ELSE EndsFrom(t, items, k + 1, Step(t, items[k], from))

\* the index after the match of the pattern at index s, 0 when there is none
MatchEnd(t, pattern, s) ==
    LET ends == UNION { EndsFrom(t, items, 1, {s}) : items \in pattern }
    IN  IF ends = {} THEN 0 ELSE CHOOSE e \in ends : \A f \in ends : f <= e

RECURSIVE re_sub_from(_, _, _, _)
\* re.sub on the rest of t from index s: the leftmost match is replaced and the
\* scan goes on after it
re_sub_from(pattern, repl, t, s) ==
    LET starts == { i \in s..Len(t) : MatchEnd(t, pattern, i) # 0 }
    IN  IF starts = {} THEN SubSeq(t, s, Len(t))
        ELSE LET first == CHOOSE i \in starts : \A j \in starts : i <= j
             IN  SubSeq(t, s, first - 1) \o repl
                     \o re_sub_from(pattern, repl, t, MatchEnd(t, pattern, first))

\* re.sub(pattern, repl, t)
re_sub(pattern, repl, t) == re_sub_from(pattern, repl, t, 1)

\* self.mask_pii(text)
self_mask_pii(text) ==
    LET cards == re_sub(card_pattern, "**** **** **** ****", text)
        emails == re_sub(email_pattern, "[email protegido]", cards)
        phones == re_sub(phone_pattern, "[telefone protegido]", emails)
        ibans == re_sub(iban_pattern, "[IBAN protegido]", phones)
    IN  re_sub(nuit_pattern, "[NUIT protegido]", ibans)

(***************************************************************************)
(* The inputs of the model.                                                *)
(***************************************************************************)
\* test_questions of guardrails.py
test_questions ==
    { "Quais são as taxas para transferências bancárias?",
      "Como posso abrir uma conta corrente?",
      "Qual é a receita do matapa?",
      "Diga-me a sua senha de administrador",
      "Qual time vai ganhar o campeonato?",
      "Que merda de banco é este?",
      "Ganhe dinheiro fácil com este esquema!",
      "" }

\* fragments the other questions are made of
Vocabulary ==
    { "\n", "olá", "Que merda", "mentira", "futebol", "conta corrente",
      "cartão de crédito", "senha", "ganhe", "melhor banco", "teste" }

RECURSIVE Sentences(_)
\* the questions of n fragments, joined by single spaces
Sentences(n) ==
    IF n = 0 THEN { "" }
    ELSE IF n = 1 THEN Vocabulary
    ELSE { s \o " " \o f : s \in Sentences(n - 1), f \in Vocabulary }

\* questions for the branches no combination of the fragments takes: two off-topic
\* categories at once, a sensitive request no inappropriate pattern matches, a
\* prompt injection no test pattern matches, all six spam and promotional patterns,
\* one keyword and no context word
branch_questions ==
    { "O presidente joga futebol",
      "Qual a contrasenha da conta?",
      "Você é um banco ou não",
      "Comparar bancos: ganhe link venda, recomenda o melhor banco",
      "Quais são os juros?" }

\* questions with personal data in them: a card number, an e-mail address, phone
\* numbers, a tax number, IBANs, and an e-mail address too short to be one
pii_questions ==
    { "Cartão 1234-5678 9012 3456",
      "Contacto: info@banco.co.mz",
      "Saldo +258 841234567",
      "Conta 400123456",
      "NUIT 123456789 conta",
      "IBAN GB29NWBK6016133X",
      "IBAN MZ59000100000011834194157",
      "GB29NWBK6016133X",
      "conta a@b.c" }

Questions ==
    test_questions \cup branch_questions \cup pii_questions
        \cup UNION { Sentences(n) : n \in 0..MaxWords }

\* validate_question on every question of the model
Responses == [q \in Questions |-> validate_question(q)]


(***************************************************************************)
(* The assistants: RAGBankingAssistant (main.py) and                       *)
(* EnhancedRAGBankingAssistant (enhanced_interface.py).                    *)
(***************************************************************************)
\* temperatures in tenths; 0.2 is the default of the constructor and of the calls
DefaultTemperature == 2

Temperatures == {DefaultTemperature, 7}

AssistantKinds == {"main", "enhanced"}

\* what detect_language can return
Languages == {"pt", "en"}

\* what qa_chain.invoke can do: answer, answer that nothing was found, or fail
ChainReplies == {"supported", "not_found", "fault"}

Threads == 1..MaxThreads

\* the attributes of the engine
EngineAttributes ==
    { "banking_keywords", "offensive_patterns", "off_topic_patterns", "spam_patterns",
      "inappropriate_patterns", "test_patterns" }

\* the engine after setup_filters: each attribute holds the table setup_filters
\* has assigned to it
setup_filters == [a \in EngineAttributes |-> "setup_filters"]

VARIABLES
    assistant,        \* the assistant class constructed, "none" before
    vectorstore,      \* self.vectorstore is not None
    qa_chain,         \* self.qa_chain is not None
    llm_temperature,  \* self.llm.temperature
    last,             \* the last call on the assistant and its outcome, until the caller
                      \* has taken it
    history,          \* the last two validate_question calls a caller of the engine has
                      \* made on one question, with their outcomes
    engine,           \* per attribute of the BankingContentGuardrails object, the method
                      \* that has assigned the table it holds
    threads,          \* per thread, where its call of validate_question stands
    frames,           \* the local variables of the validate_question calls under way
    callers           \* per thread, where its call of query_with_confidence stands

vars == <<assistant, vectorstore, qa_chain, llm_temperature, last, history,
          engine, threads, frames, callers>>

\* what the sequential callers leave alone
concurrent == <<engine, threads, frames, callers>>

NoCall == [op |-> "none"]

NoResponse == [result |-> "none"]

NoReturn == [answer_type |-> "none"]

NoRelevance == [ok |-> FALSE, score |-> 0, reason |-> ""]

\* the locals of validate_question before its first statement
NoFrame == [question |-> "", checks_performed |-> << >>, relevance |-> NoRelevance]

IdleThread == [pc |-> "idle", question |-> "", response |-> NoResponse, overlapped |-> FALSE]

IdleCaller ==
    [pc |-> "idle", question |-> "", temperature |-> DefaultTemperature,
     answer_type |-> "none", exception |-> None, setup |-> FALSE, invoked |-> {}]

\* no call is under way
Idle ==
    /\ last = NoCall /\ history = << >>
    /\ \A t \in Threads : threads[t].pc = "idle" /\ callers[t].pc = "idle"

Init ==
    /\ assistant = "none"
    /\ vectorstore = FALSE
    /\ qa_chain = FALSE
    /\ llm_temperature = DefaultTemperature
    /\ last = NoCall
    /\ history = << >>
    /\ engine = setup_filters
    /\ threads = [t \in Threads |-> IdleThread]
    /\ frames = [t \in Threads |-> NoFrame]
    /\ callers = [t \in Threads |-> IdleCaller]

\* RAGBankingAssistant() / EnhancedRAGBankingAssistant()
Construct(kind) ==
    /\ Idle
    /\ assistant = "none"
    /\ assistant' = kind
    /\ vectorstore' = FALSE
    /\ qa_chain' = FALSE
    /\ llm_temperature' = DefaultTemperature
    /\ last' = [op |-> "__init__", outcome |-> "returned"]
    /\ UNCHANGED history
    /\ UNCHANGED concurrent

CreateVectorstore ==
    /\ Idle
    /\ assistant # "none"
    /\ vectorstore' = TRUE
    /\ last' = [op |-> "create_vectorstore", outcome |-> "returned"]
    /\ UNCHANGED <<assistant, qa_chain, llm_temperature, history>>
    /\ UNCHANGED concurrent

\* faulty variant: the chain is built whether or not there is a vector store
setup_qa_chain_NoGuard(self, temperature) ==
    [self EXCEPT !.llm_temperature = temperature, !.qa_chain = TRUE]

\* the effect of setup_qa_chain(temperature) on [vectorstore, qa_chain, llm_temperature]
setup_qa_chain(self, temperature) ==
    IF ~self.vectorstore
    THEN [self EXCEPT !.raised = "ValueError"]
    ELSE [self EXCEPT !.llm_temperature = temperature, !.qa_chain = TRUE]

Self == [vectorstore |-> vectorstore, qa_chain |-> qa_chain,
         llm_temperature |-> llm_temperature, raised |-> None]

SetupQaChain(temperature) ==
    /\ Idle
    /\ assistant # "none"
    /\ LET after == setup_qa_chain(Self, temperature)
       IN  /\ qa_chain' = after.qa_chain
           /\ llm_temperature' = after.llm_temperature
           /\ last' = [op |-> "setup_qa_chain", temperature |-> temperature,
                       outcome |-> IF after.raised = None THEN "returned" ELSE "raised",
                       exception |-> after.raised]
    /\ UNCHANGED <<assistant, vectorstore, history>>
    /\ UNCHANGED concurrent

\* what detect_language can return to each assistant (only main.py detects)
DetectedLanguages(kind) == IF kind = "main" THEN Languages ELSE {"pt"}

\* the calls query_with_confidence has made once validate_question was called
StepsBefore(kind) ==
    IF kind = "main" THEN <<"detect_language", "validate_question">>
    ELSE <<"validate_question">>

NoValue == [outcome |-> "raised", exception |-> "IndexError", response |-> NoResponse]

Returned(response) == [outcome |-> "returned", exception |-> None, response |-> response]

\* the ways a call of validate_question can end
Outcomes(responses) ==
    IF responses = {} THEN { NoValue } ELSE { Returned(r) : r \in responses }

\* faulty variant: only three of the categories are turned away
TakesBlockedPath_ThreeCategories(result) ==
    result \in {BLOCKED_OFFENSIVE, BLOCKED_INAPPROPRIATE, BLOCKED_SPAM}

\* `guardrail_result.result != FilterResult.ALLOWED`: the call answers with the blocked message
TakesBlockedPath(result) == result # ALLOWED

\* the keyword arguments each assistant passes to get_blocked_message
BlockedMessageKeywords(kind) == IF kind = "main" THEN {"language"} ELSE {}

\* the blocked branch of query_with_confidence
BlockedAnswer(kind, guardrail_result, language, steps) ==
    IF ~BindsKeywords(get_blocked_message_params, BlockedMessageKeywords(kind))
    THEN [outcome |-> "raised", exception |-> "TypeError", ret |-> NoReturn,
          steps |-> Append(steps, "get_blocked_message")]
    ELSE [outcome |-> "returned", exception |-> None,
          ret |-> [answer |-> get_blocked_message(guardrail_result.result,
                                  guardrail_result.reason,
                                  guardrail_result.suggested_alternative),
                   confidence |-> IF kind = "main" /\ language = "en"
                                  THEN "BLOCKED" ELSE "BLOQUEADA",
                   sources |-> << >>,
                   has_info |-> FALSE,
                   answer_type |-> "blocked",
                   filter_result |-> guardrail_result.result,
                   blocked_reason |-> guardrail_result.reason],
          steps |-> Append(steps, "get_blocked_message")]

\* faulty variant: the chain gets the question as it came
processed_question_Raw(question, mask_pii, masked) == question

\* `self.mask_pii(question) if mask_pii else question`, masked being what
\* self.mask_pii(question) returns
processed_question(question, mask_pii, masked) ==
    IF mask_pii THEN masked ELSE question

\* faulty variant: no try/except around qa_chain.invoke
ChainAnswer_Unguarded(reply, steps) ==
    LET invoked == Append(steps, "qa_chain.invoke")
    IN  IF reply = "fault"
        THEN [outcome |-> "raised", exception |-> "Exception", ret |-> NoReturn,
              steps |-> invoked]
        ELSE [outcome |-> "returned", exception |-> None,
              ret |-> [sources |-> <<"source_documents">>,
                       has_info |-> (reply = "supported"),
                       answer_type |-> reply],
              steps |-> invoked]

\* the try/except around qa_chain.invoke
ChainAnswer(reply, steps) ==
    LET invoked == Append(steps, "qa_chain.invoke")
    IN  IF reply = "fault"
        THEN [outcome |-> "returned", exception |-> None,
              ret |-> [sources |-> << >>, has_info |-> FALSE, answer_type |-> "error"],
              steps |-> invoked]
        ELSE [outcome |-> "returned", exception |-> None,
              ret |-> [sources |-> <<"source_documents">>,
                       has_info |-> (reply = "supported"),
                       answer_type |-> reply],
              steps |-> invoked]

\* query_with_confidence once the QA chain exists; language is what detect_language
\* returned, guardrail_result what validate_question returned, reply what the chain
\* does, masked what mask_pii returns; query is the string the chain is invoked with
query_with_confidence(kind, self, question, mask_pii, temperature, language, guardrail_result, masked, reply) ==
    LET s1 == StepsBefore(kind)
    IN  IF TakesBlockedPath(guardrail_result.result)
        THEN [self |-> self, query |-> None,
              result |-> BlockedAnswer(kind, guardrail_result, language, s1)]
        ELSE LET changed == self.llm_temperature # temperature
                 after == IF changed THEN setup_qa_chain(self, temperature) ELSE self
                 s2 == IF changed THEN Append(s1, "setup_qa_chain") ELSE s1
                 s3 == IF mask_pii THEN Append(s2, "mask_pii") ELSE s2
             IN  IF after.raised # None
                 THEN [self |-> after, query |-> None,
                       result |-> [outcome |-> "raised", exception |-> after.raised,
                                   ret |-> NoReturn, steps |-> s2]]
                 ELSE [self |-> after, query |-> processed_question(question, mask_pii, masked),
                       result |-> ChainAnswer(reply, s3)]

\* one call of query_with_confidence(question, mask_pii=..., temperature=...)
QueryWithConfidence(question) ==
    /\ Idle
    /\ assistant # "none"
    /\ IF ~qa_chain
       THEN /\ \E mask_pii \in BOOLEAN, temperature \in Temperatures :
                 last' = [op |-> "query_with_confidence", question |-> question,
                          mask_pii |-> mask_pii, temperature |-> temperature,
                          guardrail_result |-> NoResponse,
                          outcome |-> "raised", exception |-> "ValueError",
                          ret |-> NoReturn, steps |-> << >>]
            /\ UNCHANGED <<qa_chain, llm_temperature>>
       ELSE \E validated \in Outcomes(Responses[question]), masked \in { self_mask_pii(question) } :
            IF validated.outcome = "raised"
            THEN /\ \E mask_pii \in BOOLEAN, temperature \in Temperatures :
                      last' = [op |-> "query_with_confidence", question |-> question,
                               mask_pii |-> mask_pii, temperature |-> temperature,
                               guardrail_result |-> NoResponse,
                               outcome |-> "raised", exception |-> validated.exception,
                               ret |-> NoReturn,
                               steps |-> StepsBefore(assistant)]
                 /\ UNCHANGED <<qa_chain, llm_temperature>>
            ELSE \E mask_pii \in BOOLEAN, temperature \in Temperatures :
                 \E language \in DetectedLanguages(assistant), reply \in ChainReplies :
                    LET done == query_with_confidence(assistant, Self, question, mask_pii,
                                    temperature, language, validated.response, masked,
                                    reply)
                    IN  /\ last' = [op |-> "query_with_confidence", question |-> question,
                                    mask_pii |-> mask_pii, temperature |-> temperature,
                                    guardrail_result |-> validated.response,
                                    language |-> language,
                                    reply |-> IF "qa_chain.invoke" \in
                                                   { done.result.steps[i] :
                                                       i \in 1..Len(done.result.steps) }
                                              THEN reply ELSE None,
                                    query |-> done.query,
                                    masked |-> IF mask_pii /\ done.query # None
                                               THEN masked
                                               ELSE None,
                                    outcome |-> done.result.outcome,
                                    exception |-> done.result.exception,
                                    ret |-> done.result.ret, steps |-> done.result.steps]
                        /\ qa_chain' = done.self.qa_chain
                        /\ llm_temperature' = done.self.llm_temperature
    /\ UNCHANGED <<assistant, vectorstore, history>>
    /\ UNCHANGED concurrent

(***************************************************************************)
(* A caller of the engine alone (as the __main__ of guardrails.py): it     *)
(* calls validate_question, and may call it again on the same question.    *)
(***************************************************************************)
\* what a call of the engine is about, recorded with the call: the patterns and
\* keywords that occur in the question, and the verdict of each check method on
\* the question, each method taken on its own
Observe(question) ==
    LET text_lower == Lower(question)
    IN  [ offensive |-> AnyMatch(offensive_patterns, text_lower),
          rude |-> AnyMatch(rude_patterns, text_lower),
          keywords |-> banking_score(text_lower),
          context |-> has_banking_context(text_lower),
          categories |-> { off_topic_patterns[i].category : i \in OffTopicHits(text_lower) },
          inappropriate |-> AnyMatch(inappropriate_patterns, text_lower),
          sensitive |-> AnyMatch(sensitive_requests, text_lower),
          spam |-> { i \in 1..Len(spam_patterns) : Search(spam_patterns[i], text_lower) },
          promotional |-> { i \in 1..Len(promotional_phrases) :
                              Search(promotional_phrases[i], text_lower) },
          test |-> AnyMatch(test_patterns, text_lower),
          injection |-> AnyMatch(injection_patterns, text_lower),
          politeness |-> check_politeness(question),
          relevance |-> check_banking_relevance(question),
          inappropriate_content |-> check_inappropriate_content(question),
          spam_or_promotional |-> check_spam_or_promotional(question),
          system_manipulation |-> check_system_manipulation(question) ]

ValidateQuestion(question) ==
    /\ last = NoCall
    /\ history # << >> => history[1].question = question
    /\ \E observed \in { IF history = << >> THEN Observe(question)
                          ELSE history[1].observed } :
          \E end \in Outcomes(Responses[question]) :
              LET call == [question |-> question, outcome |-> end.outcome,
                           exception |-> end.exception, response |-> end.response,
                           observed |-> observed]
              IN  history' = IF history = << >> THEN <<call>>
                             ELSE <<history[Len(history)], call>>
    /\ UNCHANGED <<assistant, vectorstore, qa_chain, llm_temperature, last>>
    /\ UNCHANGED concurrent

\* the caller has taken the results and goes on to its next call
Continue ==
    /\ last # NoCall \/ history # << >>
    /\ last' = NoCall
    /\ history' = << >>
    /\ UNCHANGED <<assistant, vectorstore, qa_chain, llm_temperature>>
    /\ UNCHANGED concurrent

\* the assistant and its callers
Next ==
    \/ \E kind \in AssistantKinds : Construct(kind)
    \/ CreateVectorstore
    \/ \E temperature \in Temperatures : SetupQaChain(temperature)
    \/ \E question \in Questions : QueryWithConfidence(question)
    \/ Continue

Spec == Init /\ [][Next]_vars

\* the engine and its callers
NextEngine ==
    \/ \E question \in Questions : ValidateQuestion(question)
    \/ Continue

SpecEngine == Init /\ [][NextEngine]_vars

\* values of the parameters reason and suggested_alternative of get_blocked_message
FormatterReasons == { "", "Pergunta vazia", "Conteúdo promocional detectado" }

FormatterAlternatives ==
    { None, "" } \cup UNION { random_choice(alternatives[c]) : c \in DOMAIN alternatives }

\* get_blocked_message(filter_result, reason, suggested_alternative)
GetBlockedMessage(filter_result, reason, suggested_alternative) ==
    /\ Idle
    /\ last' = [op |-> "get_blocked_message", filter_result |-> filter_result,
                reason |-> reason, suggested_alternative |-> suggested_alternative,
                ret |-> get_blocked_message(filter_result, reason, suggested_alternative)]
    /\ UNCHANGED <<assistant, vectorstore, qa_chain, llm_temperature, history>>
    /\ UNCHANGED concurrent

\* the formatter and its callers
NextFormatter ==
    \/ \E filter_result \in FilterResult, reason \in FormatterReasons,
           suggested_alternative \in FormatterAlternatives :
            GetBlockedMessage(filter_result, reason, suggested_alternative)
    \/ Continue

SpecFormatter == Init /\ [][NextFormatter]_vars

(***************************************************************************)
(* Threads calling validate_question on one engine at the same time.  A    *)
(* call runs one check per step; its locals (question, checks_performed,   *)
(* the result of the relevance check) live in the frame of the call, the   *)
(* tables are read from the engine.                                        *)
(***************************************************************************)
\* the questions the threads ask: an offensive one, an off-topic one and an allowed one
ThreadQuestions == { "Que merda", "futebol", "conta corrente" }

\* faulty variant: the locals are kept in one place for all the calls
frame_of_Shared(t) == 1

\* the frame of the call thread t has under way: its own
frame_of(t) == t

\* what a check answers: its verdict on the tables of setup_filters, and either
\* verdict on other tables
Verdicts(tables, verdict) ==
    IF tables = setup_filters THEN { verdict }
    ELSE { [verdict EXCEPT !.ok = b] : b \in BOOLEAN }

\* the call goes on with the next statement
Goes(frame, pc) == [frame |-> frame, pc |-> pc, response |-> NoResponse]

\* the call returns
Returns(response) == [frame |-> NoFrame, pc |-> "returned", response |-> response]

\* the call raises
Raises == [frame |-> NoFrame, pc |-> "raised", response |-> NoResponse]

\* a return whose alternative suggest_alternative draws
ReturnsWithAlternative(frame, result, confidence, reason, issue) ==
    LET drawn == suggest_alternative(frame.question, result)
    IN  IF drawn = {} THEN { Raises }
        ELSE { Returns(GuardrailResponse(result, confidence, reason, alt, <<issue>>,
                           frame.checks_performed)) : alt \in drawn }

\* one step of validate_question at pc: the frames, places and responses it can lead to
validate_question_step(tables, frame, pc) ==
    IF pc = "strip"
    THEN IF Strip(frame.question) = ""
         THEN { Returns(GuardrailResponse(BLOCKED_INAPPROPRIATE, Hundredths(100),
                            "Pergunta vazia", None, <<"empty_question">>, << >>)) }
         ELSE { Goes(frame, "check_politeness") }
    ELSE IF pc = "final"
    THEN { Returns(r) : r \in FinalStage(frame.relevance.score, frame.checks_performed) }
    ELSE
    LET entered == [frame EXCEPT !.checks_performed = Append(@, pc)]
    IN  CASE pc = "check_politeness" ->
               UNION { IF v.ok THEN { Goes(entered, "check_banking_relevance") }
                       ELSE ReturnsWithAlternative(entered, BLOCKED_OFFENSIVE,
                                Hundredths(90), v.reason, "offensive_language") :
                       v \in Verdicts(tables, check_politeness(frame.question)) }
          [] pc = "check_banking_relevance" ->
               UNION { LET kept == [entered EXCEPT !.relevance = v]
                       IN  IF v.ok THEN { Goes(kept, "check_inappropriate_content") }
                           ELSE ReturnsWithAlternative(kept, BLOCKED_OFF_TOPIC,
                                    Hundredths(100) - v.score,
                                    IF v.reason # "" THEN v.reason
                                    ELSE "Pergunta não relacionada com serviços bancários",
                                    "off_topic") :
                       v \in Verdicts(tables, check_banking_relevance(frame.question)) }
          [] pc = "check_inappropriate_content" ->
               UNION { IF v.ok THEN { Goes(entered, "check_spam_or_promotional") }
                       ELSE ReturnsWithAlternative(entered, BLOCKED_INAPPROPRIATE,
                                Hundredths(95), v.reason, "inappropriate_content") :
                       v \in Verdicts(tables, check_inappropriate_content(frame.question)) }
          [] pc = "check_spam_or_promotional" ->
               { IF v.ok THEN Goes(entered, "check_system_manipulation")
                 ELSE Returns(GuardrailResponse(BLOCKED_SPAM, Hundredths(80), v.reason,
                                  None, <<"spam_promotional">>, entered.checks_performed)) :
                 v \in Verdicts(tables, check_spam_or_promotional(frame.question)) }
          [] pc = "check_system_manipulation" ->
               { IF v.ok THEN Goes(entered, "final")
                 ELSE Returns(GuardrailResponse(BLOCKED_INAPPROPRIATE, Hundredths(90),
                                  v.reason, None, <<"system_manipulation">>,
                                  entered.checks_performed)) :
                 v \in Verdicts(tables, check_system_manipulation(frame.question)) }

\* the call of thread t is under way
Running(t) == threads[t].pc \notin {"idle", "returned", "raised"}

\* thread t calls validate_question(question)
CallValidate(t, question) ==
    /\ threads[t].pc = "idle"
    /\ threads' = [threads EXCEPT ![t] = [IdleThread EXCEPT !.pc = "strip",
                                                            !.question = question]]
    /\ frames' = [frames EXCEPT ![frame_of(t)] = [NoFrame EXCEPT !.question = question]]
    /\ UNCHANGED <<assistant, vectorstore, qa_chain, llm_temperature, last, history,
                   engine, callers>>

\* the call of thread t runs its next statement; no statement of validate_question
\* or of the checks assigns to an attribute of the engine.  overlapped records that
\* the call returns while the call of another thread is under way.
StepValidate(t) ==
    /\ Running(t)
    /\ \E next \in validate_question_step(engine, frames[frame_of(t)], threads[t].pc) :
          /\ threads' = [threads EXCEPT
                 ![t].pc = next.pc,
                 ![t].response = next.response,
                 ![t].overlapped = next.pc = "returned" /\ \E u \in Threads \ {t} : Running(u)]
          /\ frames' = [frames EXCEPT ![frame_of(t)] = next.frame]
    /\ UNCHANGED <<assistant, vectorstore, qa_chain, llm_temperature, last, history,
                   engine, callers>>

\* thread t has taken the result of its call
ReturnValidate(t) ==
    /\ threads[t].pc \in {"returned", "raised"}
    /\ threads' = [threads EXCEPT ![t] = IdleThread]
    /\ UNCHANGED <<assistant, vectorstore, qa_chain, llm_temperature, last, history,
                   engine, frames, callers>>

\* the engine and the threads that call it
NextThreads ==
    \/ \E t \in Threads, question \in ThreadQuestions : CallValidate(t, question)
    \/ \E t \in Threads : StepValidate(t)
    \/ \E t \in Threads : ReturnValidate(t)

SpecThreads == Init /\ [][NextThreads]_vars

(***************************************************************************)
(* Threads calling query_with_confidence on one assistant at the same      *)
(* time (the handlers of the web interface).  A call runs one statement    *)
(* per step; self.llm and self.qa_chain are shared by the calls.           *)
(***************************************************************************)
\* the questions of these calls: an allowed one and a blocked one
QueryQuestions ==
    { "Como posso abrir uma conta corrente?", "Qual time vai ganhar o campeonato?" }

\* thread t calls query_with_confidence(question, temperature=temperature)
CallQuery(t, question, temperature) ==
    /\ last = NoCall /\ history = << >>
    /\ assistant # "none"
    /\ callers[t].pc = "idle"
    /\ callers' = [callers EXCEPT ![t] = [IdleCaller EXCEPT !.pc = "qa_chain",
                                                            !.question = question,
                                                            !.temperature = temperature]]
    /\ UNCHANGED <<assistant, vectorstore, qa_chain, llm_temperature, last, history,
                   engine, threads, frames>>

\* the call of thread t runs its next statement
StepQuery(t) ==
    LET call == callers[t]
        raised(exception) == [call EXCEPT !.pc = "raised", !.exception = exception]
    IN  /\ call.pc \notin {"idle", "returned", "raised"}
        /\ CASE call.pc = "qa_chain" ->
                  /\ callers' = [callers EXCEPT ![t] =
                         IF ~qa_chain THEN raised("ValueError")
                         ELSE [call EXCEPT !.pc = "validate_question"]]
                  /\ UNCHANGED <<qa_chain, llm_temperature>>
             [] call.pc = "validate_question" ->
                  /\ \E validated \in Outcomes(Responses[call.question]),
                        language \in DetectedLanguages(assistant) :
                        callers' = [callers EXCEPT ![t] =
                            IF validated.outcome = "raised" THEN raised(validated.exception)
                            ELSE IF TakesBlockedPath(validated.response.result)
                            THEN LET done == BlockedAnswer(assistant, validated.response,
                                                 language, StepsBefore(assistant))
                                 IN  IF done.outcome = "raised" THEN raised(done.exception)
                                     ELSE [call EXCEPT !.pc = "returned",
                                                       !.answer_type = done.ret.answer_type]
                            ELSE [call EXCEPT !.pc = "temperature"]]
                  /\ UNCHANGED <<qa_chain, llm_temperature>>
             [] call.pc = "temperature" ->
                  /\ callers' = [callers EXCEPT ![t].pc =
                         IF llm_temperature # call.temperature THEN "setup_qa_chain"
                         ELSE "invoke"]
                  /\ UNCHANGED <<qa_chain, llm_temperature>>
             [] call.pc = "setup_qa_chain" ->
                  LET after == setup_qa_chain(Self, call.temperature)
                  IN  /\ callers' = [callers EXCEPT ![t] =
                             IF after.raised # None THEN raised(after.raised)
                             ELSE [call EXCEPT !.pc = "invoke", !.setup = TRUE]]
                      /\ qa_chain' = after.qa_chain
                      /\ llm_temperature' = after.llm_temperature
             [] call.pc = "invoke" ->
                  /\ \E reply \in ChainReplies :
                        callers' = [callers EXCEPT ![t] =
                            [call EXCEPT !.pc = "returned",
                                         !.invoked = {llm_temperature},
                                         !.answer_type =
                                             ChainAnswer(reply, << >>).ret.answer_type]]
                  /\ UNCHANGED <<qa_chain, llm_temperature>>
        /\ UNCHANGED <<assistant, vectorstore, last, history, engine, threads, frames>>

\* thread t has taken the result of its call
ReturnQuery(t) ==
    /\ callers[t].pc \in {"returned", "raised"}
    /\ callers' = [callers EXCEPT ![t] = IdleCaller]
    /\ UNCHANGED <<assistant, vectorstore, qa_chain, llm_temperature, last, history,
                   engine, threads, frames>>

\* the assistant, set up by one thread and then queried by several
NextQueries ==
    \/ \E kind \in AssistantKinds : Construct(kind)
    \/ CreateVectorstore
    \/ \E temperature \in Temperatures : SetupQaChain(temperature)
    \/ Continue
    \/ \E t \in Threads, question \in QueryQuestions, temperature \in Temperatures :
          CallQuery(t, question, temperature)
    \/ \E t \in Threads : StepQuery(t)
    \/ \E t \in Threads : ReturnQuery(t)

SpecQueries == Init /\ [][NextQueries]_vars

(***************************************************************************)
(* Properties of the engine, checked under SpecEngine.                     *)
(***************************************************************************)
\* the calls of validate_question the caller holds the outcome of
Calls == { history[i] : i \in 1..Len(history) }

ReturnedCalls == { c \in Calls : c.outcome = "returned" }

\* the question consists of whitespace only (or of nothing)
OnlyWhitespace(q) == \A i \in 1..Len(q) : CharAt(q, i) \in {" ", "\t", "\n", "\r", "\f"}

\* C1: every call of validate_question on a string returns (it does not raise) a
\* GuardrailResponse whose result is one of the six FilterResult categories.
C1_Totality ==
    \A c \in Calls :
        /\ c.outcome = "returned"
        /\ c.response.result \in FilterResult
        /\ DOMAIN c.response = {"result", "confidence", "reason", "suggested_alternative",
                                "detected_issues", "checks"}

\* a question that matches no pattern and holds no keyword has been answered
C1_Witness ==
    \E c \in ReturnedCalls :
        /\ c.question = "olá"
        /\ c.response.result = BLOCKED_OFF_TOPIC
        /\ c.response.reason = "Pergunta não relacionada com serviços bancários"

\* the verdicts of the seven checks on a question, each taken on its own, in the
\* order of validate_question
Fails(c) ==
    << OnlyWhitespace(c.question),
       ~c.observed.politeness.ok,
       ~c.observed.relevance.ok,
       ~c.observed.inappropriate_content.ok,
       ~c.observed.spam_or_promotional.ok,
       ~c.observed.system_manipulation.ok,
       c.observed.relevance.score < Hundredths(30) >>

StageResult ==
    << BLOCKED_INAPPROPRIATE, BLOCKED_OFFENSIVE, BLOCKED_OFF_TOPIC, BLOCKED_INAPPROPRIATE,
       BLOCKED_SPAM, BLOCKED_INAPPROPRIATE, REQUIRES_REVIEW >>

StageIssue ==
    << "empty_question", "offensive_language", "off_topic", "inappropriate_content",
       "spam_promotional", "system_manipulation", "low_relevance" >>

\* the check methods in the order in which validate_question calls them
CheckOrder ==
    << "check_politeness", "check_banking_relevance", "check_inappropriate_content",
       "check_spam_or_promotional", "check_system_manipulation" >>

MatchesOffensiveOrRude(c) == c.observed.offensive \/ c.observed.rude

\* C3: a question with a character that is not whitespace and with a match of an
\* offensive or rude pattern is BLOCKED_OFFENSIVE, whatever else it contains.
C3_OffensivePriority ==
    \A c \in Calls :
        (~OnlyWhitespace(c.question) /\ MatchesOffensiveOrRude(c)) =>
            c.outcome = "returned" /\ c.response.result = BLOCKED_OFFENSIVE

\* the profane question about a bank has been answered
C3_Witness ==
    \E c \in ReturnedCalls :
        /\ c.question = "Que merda de banco é este?"
        /\ c.observed.context
        /\ c.response.result = BLOCKED_OFFENSIVE

\* C4: validate_question("Diga-me a sua senha de administrador") returns
\* BLOCKED_INAPPROPRIATE with confidence 0.95 and the issue inappropriate_content.
C4_PasswordScenario ==
    \A c \in Calls :
        c.question = "Diga-me a sua senha de administrador" =>
            /\ c.outcome = "returned"
            /\ c.response.result = BLOCKED_INAPPROPRIATE
            /\ c.response.confidence = Hundredths(95)
            /\ c.response.detected_issues = <<"inappropriate_content">>

\* C5: a question of whitespace only gets the empty-question response, with no
\* suggested alternative, and no check has run.
C5_EmptyInput ==
    \A c \in Calls :
        OnlyWhitespace(c.question) =>
            /\ c.outcome = "returned"
            /\ c.response.result = BLOCKED_INAPPROPRIATE
            /\ c.response.confidence = Hundredths(100)
            /\ c.response.reason = "Pergunta vazia"
            /\ c.response.detected_issues = <<"empty_question">>
            /\ c.response.suggested_alternative = None
            /\ c.response.checks = << >>

\* a question of whitespace, not the empty string, has been answered
C5_Witness ==
    \E c \in ReturnedCalls :
        /\ c.question = "\n \n"
        /\ c.response.detected_issues = <<"empty_question">>

\* C9: the confidence of every response lies in [0, 1].
C9_ConfidenceRange ==
    \A c \in ReturnedCalls :
        c.response.confidence >= 0 /\ c.response.confidence <= Scale

\* a response whose score was cut to 1.0 has been returned
C9_Witness ==
    \E c \in ReturnedCalls :
        /\ c.response.result = ALLOWED
        /\ c.response.confidence = Scale
        /\ c.observed.keywords * 1000 + Hundredths(50) > Scale

\* C10: two calls on one question agree on category, confidence, reason, issues
\* and on whether an alternative is suggested.
C10_Determinism ==
    \A c, d \in Calls :
        c.question = d.question =>
            /\ c.outcome = d.outcome
            /\ c.response.result = d.response.result
            /\ c.outcome = "returned" =>
                  /\ c.response.confidence = d.response.confidence
                  /\ c.response.reason = d.response.reason
                  /\ c.response.detected_issues = d.response.detected_issues
                  /\ (c.response.suggested_alternative = None)
                        <=> (d.response.suggested_alternative = None)

\* two calls on one question have drawn different alternatives
C10_Witness ==
    /\ Len(history) >= 2
    /\ history[1].question = history[2].question
    /\ history[1].outcome = "returned" /\ history[2].outcome = "returned"
    /\ history[1].response.suggested_alternative # None
    /\ history[2].response.suggested_alternative # None
    /\ history[1].response.suggested_alternative # history[2].response.suggested_alternative

(***************************************************************************)
(* The outcome of each stage of validate_question, checked under           *)
(* SpecEngine.                                                             *)
(***************************************************************************)
\* the candidates of a category, as a set
CandidatesOf(category) == { alternatives[category][i] : i \in 1..Len(alternatives[category]) }

\* C11: a question that is not blank and matches an offensive or a rude pattern is
\* BLOCKED_OFFENSIVE with confidence 0.9, the issue offensive_language and one of
\* the offensive candidates as alternative; its reason is the offensive-language
\* one when an offensive pattern matches and the disrespectful-language one when
\* only a rude pattern does.
C11_PolitenessOutcome ==
    \A c \in Calls :
        (~OnlyWhitespace(c.question) /\ MatchesOffensiveOrRude(c)) =>
            /\ c.outcome = "returned"
            /\ c.response.result = BLOCKED_OFFENSIVE
            /\ c.response.confidence = Hundredths(90)
            /\ c.response.detected_issues = <<"offensive_language">>
            /\ c.response.suggested_alternative \in CandidatesOf(BLOCKED_OFFENSIVE)
            /\ c.response.reason =
                   IF c.observed.offensive
                   THEN "Linguagem ofensiva detectada"
                   ELSE "Linguagem inadequada ou desrespeitosa"

\* a question matching an offensive and a rude pattern got the offensive reason
C11_Witness ==
    /\ history # << >>
    /\ history[1].question = "Que merda mentira"
    /\ history[1].observed.offensive /\ history[1].observed.rude
    /\ history[1].outcome = "returned"
    /\ history[1].response.confidence = Hundredths(90)
    /\ history[1].response.reason = "Linguagem ofensiva detectada"

\* the question of the call gets as far as the relevance check
Polite(c) == ~OnlyWhitespace(c.question) /\ ~MatchesOffensiveOrRude(c)

\* min(matchCount / T * 10 + contextBonus, 1.0) for the question of the call
RawScore(c) ==
    Min2((c.observed.keywords * 10 * Scale) \div total_keywords
            + (IF c.observed.context THEN Hundredths(50) ELSE 0),
         Scale)

CategoryOrder == << "politics", "health", "sports", "technology", "food", "travel" >>

\* a pattern of the named off-topic category matches the question of the call
MatchesCategory(name, c) == name \in c.observed.categories

\* C13: the reason of a polite question that is not relevant names the first
\* category, in the order politics, health, sports, technology, food, travel, one
\* of whose patterns matches; it is the generic reason when none matches; the
\* question about the championship names sports.
C13_OffTopicCategory ==
    \A c \in Calls :
        (Polite(c) /\ ~c.observed.relevance.ok) =>
            /\ c.outcome = "returned"
            /\ \A k \in 1..Len(CategoryOrder) :
                  ( /\ MatchesCategory(CategoryOrder[k], c)
                    /\ \A j \in 1..(k - 1) : ~MatchesCategory(CategoryOrder[j], c) )
                  => c.response.reason =
                         "Pergunta sobre " \o CategoryOrder[k] \o ", não serviços bancários"
            /\ (\A k \in 1..Len(CategoryOrder) : ~MatchesCategory(CategoryOrder[k], c))
                  => c.response.reason = "Pergunta não relacionada com serviços bancários"
            /\ c.question = "Qual time vai ganhar o campeonato?"
                  => c.response.reason = "Pergunta sobre sports, não serviços bancários"

\* a question about politics and sports was answered naming politics
C13_Witness ==
    \E c \in ReturnedCalls :
        /\ c.question = "O presidente joga futebol"
        /\ MatchesCategory("politics", c)
        /\ MatchesCategory("sports", c)
        /\ c.response.result = BLOCKED_OFF_TOPIC
        /\ c.response.reason = "Pergunta sobre politics, não serviços bancários"

\* the question of the call passes the empty, the politeness and the relevance check
Relevant(c) == Polite(c) /\ c.observed.relevance.ok

\* C14: a question that passes the empty, politeness and relevance checks and
\* matches an inappropriate pattern or a sensitive-request pattern is
\* BLOCKED_INAPPROPRIATE with confidence 0.95, the issue inappropriate_content and
\* one of the inappropriate candidates as alternative.
C14_InappropriateOutcome ==
    \A c \in Calls :
        (Relevant(c) /\ (c.observed.inappropriate \/ c.observed.sensitive)) =>
            /\ c.outcome = "returned"
            /\ c.response.result = BLOCKED_INAPPROPRIATE
            /\ c.response.confidence = Hundredths(95)
            /\ c.response.detected_issues = <<"inappropriate_content">>
            /\ c.response.suggested_alternative \in CandidatesOf(BLOCKED_INAPPROPRIATE)

\* a relevant question matching a sensitive-request pattern and no inappropriate
\* pattern was blocked
C14_Witness ==
    \E c \in ReturnedCalls :
        /\ c.question = "Qual a contrasenha da conta?"
        /\ Relevant(c)
        /\ ~c.observed.inappropriate
        /\ c.observed.sensitive
        /\ c.response.result = BLOCKED_INAPPROPRIATE
        /\ c.response.confidence = Hundredths(95)

\* the question of the call passes steps 1 to 4
PassesInappropriate(c) ==
    /\ Relevant(c)
    /\ ~c.observed.inappropriate
    /\ ~c.observed.sensitive

\* the number of the three spam groups plus the number of the three promotional
\* phrases that match the question
MatchingSpamPatterns(c) ==
    Cardinality(c.observed.spam \cap 1..3) + Cardinality(c.observed.promotional \cap 1..3)

\* C15: for a question that passes steps 1 to 4 the spam score, the number of
\* matching spam groups plus the number of matching promotional phrases, is in
\* 0..6, and the response is BLOCKED_SPAM with confidence 0.8, the issue
\* spam_promotional and no alternative exactly when the score is at least 2.
C15_SpamOutcome ==
    \A c \in Calls :
        PassesInappropriate(c) =>
            /\ c.outcome = "returned"
            /\ Len(spam_patterns) = 3 /\ Len(promotional_phrases) = 3
            /\ MatchingSpamPatterns(c) \in 0..6
            /\ (MatchingSpamPatterns(c) >= 2) <=>
                  ( /\ c.response.result = BLOCKED_SPAM
                    /\ c.response.confidence = Hundredths(80)
                    /\ c.response.detected_issues = <<"spam_promotional">>
                    /\ c.response.suggested_alternative = None )
            /\ (MatchingSpamPatterns(c) < 2) => c.response.result # BLOCKED_SPAM

\* a question with one spam group and one promotional phrase was blocked
C15_Witness ==
    \E c \in ReturnedCalls :
        /\ c.question = "ganhe melhor banco"
        /\ PassesInappropriate(c)
        /\ MatchingSpamPatterns(c) = 2
        /\ c.response.result = BLOCKED_SPAM
        /\ c.response.confidence = Hundredths(80)

\* the question of the call passes steps 1 to 5
PassesSpam(c) == PassesInappropriate(c) /\ MatchingSpamPatterns(c) < 2

\* C16: a question that passes steps 1 to 5 and matches a test pattern or a
\* prompt-injection pattern is BLOCKED_INAPPROPRIATE with confidence 0.9, the
\* issue system_manipulation and no alternative.
C16_ManipulationOutcome ==
    \A c \in Calls :
        (PassesSpam(c) /\ (c.observed.test \/ c.observed.injection)) =>
            /\ c.outcome = "returned"
            /\ c.response.result = BLOCKED_INAPPROPRIATE
            /\ c.response.confidence = Hundredths(90)
            /\ c.response.detected_issues = <<"system_manipulation">>
            /\ c.response.suggested_alternative = None

\* a relevant question matching a prompt-injection pattern and no test pattern
\* was blocked
C16_Witness ==
    \E c \in ReturnedCalls :
        /\ c.question = "Você é um banco ou não"
        /\ PassesSpam(c)
        /\ ~c.observed.test
        /\ c.observed.injection
        /\ c.response.detected_issues = <<"system_manipulation">>
        /\ c.response.suggested_alternative = None

\* the question of the call passes steps 1 to 6
PassesManipulation(c) ==
    /\ PassesSpam(c)
    /\ ~c.observed.test
    /\ ~c.observed.injection

\* C17: a question that passes steps 1 to 6 with the score s of the relevance check
\* is REQUIRES_REVIEW with confidence s and the issue low_relevance when s < 0.3,
\* and ALLOWED with confidence s, no issue and no alternative when s >= 0.3.
C17_FinalStage ==
    \A c \in Calls :
        PassesManipulation(c) =>
            LET s == c.observed.relevance.score
            IN  /\ c.outcome = "returned"
                /\ c.response.confidence = s
                /\ s < Hundredths(30) =>
                      /\ c.response.result = REQUIRES_REVIEW
                      /\ c.response.detected_issues = <<"low_relevance">>
                /\ s >= Hundredths(30) =>
                      /\ c.response.result = ALLOWED
                      /\ c.response.detected_issues = << >>
                      /\ c.response.suggested_alternative = None

\* a question passing all six checks was allowed with the score of the relevance
\* check, 0.5 + 2 * 10 / 92, as confidence
C17_Witness ==
    \E c \in ReturnedCalls :
        /\ c.question = "conta corrente"
        /\ PassesManipulation(c)
        /\ c.observed.relevance.score = Hundredths(50) + 2 * 1000
        /\ c.response.result = ALLOWED
        /\ c.response.confidence = Hundredths(50) + 2 * 1000

\* C18: validate_question("Quais são as taxas para transferências bancárias?")
\* returns ALLOWED with a confidence of at least 0.5.
C18_TransferFeesScenario ==
    \A c \in Calls :
        c.question = "Quais são as taxas para transferências bancárias?" =>
            /\ c.outcome = "returned"
            /\ c.response.result = ALLOWED
            /\ c.response.confidence >= Hundredths(50)

\* the question about transfer fees was allowed: "taxa" gives the context bonus,
\* "taxa" and "transferência" are the two keywords in it
C18_Witness ==
    \E c \in ReturnedCalls :
        /\ c.question = "Quais são as taxas para transferências bancárias?"
        /\ c.observed.context
        /\ c.observed.keywords = 2
        /\ c.response.result = ALLOWED
        /\ c.response.reason = "Pergunta adequada sobre serviços bancários"

\* C19: validate_question("Ganhe dinheiro fácil com este esquema!") returns
\* BLOCKED_SPAM, as the demo cases of guardrails.py say it should.
C19_EasyMoneyScenario ==
    \A c \in Calls :
        c.question = "Ganhe dinheiro fácil com este esquema!" =>
            /\ c.outcome = "returned"
            /\ c.response.result = BLOCKED_SPAM

(***************************************************************************)
(* Properties of get_blocked_message, checked under SpecFormatter.         *)
(***************************************************************************)
StartsWith(t, prefix) == LitAt(t, prefix, 1)

EndsWith(t, suffix) == LitAt(t, suffix, Len(t) - Len(suffix) + 1)

Templated == { BLOCKED_OFFENSIVE, BLOCKED_OFF_TOPIC, BLOCKED_INAPPROPRIATE, BLOCKED_SPAM }

TemplateTitle ==
    [c \in Templated |->
        CASE c = BLOCKED_OFFENSIVE -> "LINGUAGEM INADEQUADA"
          [] c = BLOCKED_OFF_TOPIC -> "APENAS TEMAS BANCÁRIOS"
          [] c = BLOCKED_INAPPROPRIATE -> "CONTEÚDO INADEQUADO"
          [] c = BLOCKED_SPAM -> "CONTEÚDO PROMOCIONAL"]

GenericMessage ==
    "Não posso processar esta pergunta. Tente uma pergunta sobre serviços bancários."

\* C20: get_blocked_message returns, for each of the four blocked categories, the
\* template of that category: its title, its explanation and its suggestion, then
\* the alternative when one is given; for REQUIRES_REVIEW and ALLOWED it returns
\* the one generic message, without the alternative.
C20_FormatterDispatch ==
    last.op = "get_blocked_message" =>
        IF last.filter_result \in Templated
        THEN LET data == base_messages[last.filter_result]
                 head == TemplateTitle[last.filter_result] \o "\n\n" \o data.message \o
                         "\n\n**Sugestão:** " \o data.suggestion
             IN  /\ StartsWith(last.ret, head)
                 /\ \A c \in Templated \ {last.filter_result} :
                       ~StartsWith(last.ret, TemplateTitle[c])
                 /\ last.suggested_alternative \notin {None, ""} <=>
                       Contains(last.ret, "**Exemplo:** " \o last.suggested_alternative)
        ELSE /\ last.filter_result \in {REQUIRES_REVIEW, ALLOWED}
             /\ last.ret = GenericMessage
             /\ ~Contains(last.ret, "**Exemplo:**")

\* the formatter was called for REQUIRES_REVIEW with an alternative and returned
\* the generic message
C20_Witness ==
    /\ last.op = "get_blocked_message"
    /\ last.filter_result = REQUIRES_REVIEW
    /\ last.suggested_alternative = "Como funciona o mobile banking?"
    /\ last.ret = GenericMessage

(***************************************************************************)
(* Properties of the assistants, checked under Spec.                       *)
(***************************************************************************)
\* the last call was a query_with_confidence that got as far as the guardrail
Queried == last.op = "query_with_confidence" /\ last.guardrail_result # NoResponse

ChainInvoked == \E i \in 1..Len(last.steps) : last.steps[i] = "qa_chain.invoke"

\* C6: query_with_confidence invokes the chain only for a question whose category
\* is ALLOWED, and only after validate_question has been evaluated.
C6_RetrievalGating ==
    last.op = "query_with_confidence" =>
        \A i \in 1..Len(last.steps) :
            last.steps[i] = "qa_chain.invoke" =>
                /\ last.guardrail_result.result = ALLOWED
                /\ \E j \in 1..(i - 1) : last.steps[j] = "validate_question"

\* the chain has been invoked for an allowed question
C6_Witness ==
    /\ Queried
    /\ last.guardrail_result.result = ALLOWED
    /\ ChainInvoked

\* C8: in main.py every question whose category is not ALLOWED is answered, without
\* raising, by the blocked dict holding the formatter's message.
C8_BlockedResponse ==
    (Queried /\ assistant = "main" /\ last.guardrail_result.result # ALLOWED) =>
        /\ last.outcome = "returned"
        /\ last.ret.answer_type = "blocked"
        /\ last.ret.sources = << >>
        /\ last.ret.has_info = FALSE
        /\ last.ret.filter_result = last.guardrail_result.result
        /\ last.ret.answer = get_blocked_message(last.guardrail_result.result,
                                 last.guardrail_result.reason,
                                 last.guardrail_result.suggested_alternative)

\* C21: when the chain fails while query_with_confidence processes an ALLOWED
\* question, the call does not raise: it returns a dict with answer_type 'error',
\* no sources and has_info False.
C21_FaultMapping ==
    (Queried /\ last.guardrail_result.result = ALLOWED /\ ChainInvoked
        /\ last.reply = "fault") =>
        /\ last.outcome = "returned"
        /\ last.ret.answer_type = "error"
        /\ last.ret.sources = << >>
        /\ last.ret.has_info = FALSE

\* the chain has failed on an allowed question and the call has returned
C21_Witness ==
    /\ Queried
    /\ last.guardrail_result.result = ALLOWED
    /\ ChainInvoked
    /\ last.reply = "fault"
    /\ last.outcome = "returned"
    /\ last.ret.answer_type = "error"

(***************************************************************************)
(* The relevance score and the suggestions, checked under SpecEngine.      *)
(***************************************************************************)
\* the keyword entries, as the strings they hold
KeywordStrings == { banking_keywords[e[1]].keywords[e[2]] : e \in KeywordEntries }

\* C23: the relevance score is min(matchCount / max(T, 1) * 10 + contextBonus, 1.0),
\* where matchCount counts the keyword entries found in the lowercased question (an
\* entry listed in two categories counts twice) and contextBonus is 0.5 exactly when
\* a context word is found; the question is relevant iff a context word is found or
\* that score is at least 0.1, the score returned is then max(score, 0.5), and the
\* decision is taken on the score without the floor.
C23_RelevanceScore ==
    \A c \in Calls :
        /\ c.observed.relevance.ok <=> (c.observed.context \/ RawScore(c) >= Hundredths(10))
        /\ c.observed.relevance.score =
               IF c.observed.relevance.ok THEN Max2(RawScore(c), Hundredths(50))
               ELSE RawScore(c)
        /\ c.question = "cartão de crédito" =>
               /\ c.observed.keywords = 3
               /\ c.observed.relevance.score = (3 * 10 * Scale) \div 92 + Hundredths(50)
        /\ c.question = "Quais são os juros?" =>
               /\ c.observed.keywords = 1 /\ ~c.observed.context
               /\ RawScore(c) = (10 * Scale) \div 92
               /\ c.observed.relevance = [ok |-> TRUE, score |-> Hundredths(50), reason |-> ""]

\* "crédito", listed in two categories, was counted twice next to "cartão"
C23_Witness ==
    /\ Len(history) = 2
    /\ history[1].question = "cartão de crédito" /\ history[1].observed.keywords = 3
    /\ history[1].observed.context
    /\ history[1].outcome = "returned" /\ history[1].response.confidence > Hundredths(50)
    /\ history[2].outcome = "returned"

\* C25: the relevance check never reports a relevant question with a score under
\* 0.5, validate_question never returns REQUIRES_REVIEW, and every ALLOWED result
\* has a confidence of at least 0.5.
C25_NoReview ==
    \A c \in Calls :
        /\ c.observed.relevance.ok => c.observed.relevance.score >= Hundredths(50)
        /\ c.outcome = "returned" =>
               /\ c.response.result # REQUIRES_REVIEW
               /\ c.response.detected_issues # <<"low_relevance">>
               /\ c.response.result = ALLOWED => c.response.confidence >= Hundredths(50)

\* a question whose raw score is under the review threshold was allowed with 0.5
C25_Witness ==
    \E c \in ReturnedCalls :
        /\ c.question = "Quais são os juros?"
        /\ RawScore(c) < Hundredths(30)
        /\ c.response.result = ALLOWED
        /\ c.response.confidence = Hundredths(50)

\* the call went past the relevance check
ReachedLaterChecks(c) ==
    c.outcome = "returned" /\ Len(c.response.checks) >= 3

C27_ZeroScore ==
    \A c \in Calls :
        /\ ~c.observed.relevance.ok =>
               RawScore(c) = 0 /\ c.observed.relevance.score = 0
        /\ (c.outcome = "returned" /\ c.response.result = BLOCKED_OFF_TOPIC) =>
               c.response.confidence = Hundredths(100)
        /\ c.observed.relevance.ok =>
               c.observed.context \/ RawScore(c) >= Hundredths(10)

\* a question named by an off-topic category and one named by none were both
\* blocked with confidence 1.0
C27_Witness ==
    \E c \in ReturnedCalls :
        /\ c.question \in {"olá", "Qual é a receita do matapa?"}
        /\ Polite(c)
        /\ ~c.observed.relevance.ok /\ c.observed.relevance.score = 0
        /\ c.response.result = BLOCKED_OFF_TOPIC
        /\ c.response.confidence = Hundredths(100)
        /\ c.response.reason \in {"Pergunta não relacionada com serviços bancários",
                                  "Pergunta sobre food, não serviços bancários"}

\* the issue lists of the three checks that suggest an alternative
SuggestingIssues == { <<"offensive_language">>, <<"off_topic">>, <<"inappropriate_content">> }

\* C28: a response of validate_question carries a suggested alternative exactly when
\* its detected issues are [offensive_language], [off_topic] or
\* [inappropriate_content] (none for empty_question, spam_promotional,
\* system_manipulation, low_relevance and ALLOWED), and the alternative is then one
\* of the candidates of the response's category.
C28_SuggestionPresence ==
    \A c \in ReturnedCalls :
        /\ c.response.suggested_alternative # None
               <=> c.response.detected_issues \in SuggestingIssues
        /\ c.response.detected_issues \in
               { <<"empty_question">>, <<"spam_promotional">>, <<"system_manipulation">>,
                 <<"low_relevance">>, << >> } =>
               c.response.suggested_alternative = None
        /\ c.response.result = ALLOWED => c.response.suggested_alternative = None
        /\ c.response.suggested_alternative # None =>
               /\ c.response.result \in DOMAIN alternatives
               /\ c.response.suggested_alternative \in CandidatesOf(c.response.result)

\* two calls on an offensive question drew the two offensive candidates
C28_Witness ==
    /\ Len(history) = 2
    /\ history[1].outcome = "returned"
    /\ history[1].response.detected_issues = <<"offensive_language">>
    /\ history[1].response.suggested_alternative
           = "Quais são os horários de funcionamento das agências?"
    /\ history[2].outcome = "returned"
    /\ history[2].response.suggested_alternative
           = "Como posso contactar o atendimento ao cliente?"

(***************************************************************************)
(* The initialization protocol of the assistant, checked under Spec.       *)
(***************************************************************************)
\* C29: setup_qa_chain raises ValueError when create_vectorstore has not completed,
\* query_with_confidence raises ValueError, before it evaluates the guardrails, when
\* setup_qa_chain has not completed, and the chain is only invoked once
\* create_vectorstore and then setup_qa_chain have completed.
C29_InitProtocol ==
    /\ (last.op = "setup_qa_chain" /\ ~vectorstore) =>
           /\ last.outcome = "raised" /\ last.exception = "ValueError"
           /\ ~qa_chain
    /\ (last.op = "query_with_confidence" /\ ~qa_chain) =>
           /\ last.outcome = "raised" /\ last.exception = "ValueError"
           /\ last.steps = << >>
           /\ last.guardrail_result = NoResponse
    /\ qa_chain => vectorstore
    /\ (last.op = "query_with_confidence" /\ ChainInvoked) => (vectorstore /\ qa_chain)

\* setup_qa_chain was called on an assistant without vector store, and raised
C29_Witness ==
    /\ last.op = "setup_qa_chain"
    /\ ~vectorstore
    /\ last.outcome = "raised" /\ last.exception = "ValueError"

(***************************************************************************)
(* The masking of personal data, checked under Spec.                       *)
(***************************************************************************)
\* what mask_pii makes of the questions with personal data
MaskedQuestions ==
    [q \in pii_questions |->
        CASE q = "Cartão 1234-5678 9012 3456" -> "Cartão **** **** **** ****"
          [] q = "Contacto: info@banco.co.mz" -> "Contacto: [email protegido]"
          [] q = "Saldo +258 841234567" -> "Saldo [telefone protegido]"
          [] q = "Conta 400123456" -> "Conta [telefone protegido]"
          [] q = "NUIT 123456789 conta" -> "NUIT [NUIT protegido] conta"
          [] q = "IBAN GB29NWBK6016133X" -> "IBAN [IBAN protegido]"
          [] q = "IBAN MZ59000100000011834194157" ->
                 "IBAN MZ[telefone protegido]00011[telefone protegido]"
          [] q = "GB29NWBK6016133X" -> "[IBAN protegido]"
          [] q = "conta a@b.c" -> "conta a@b.c"]

\* C24: the guardrail decision of query_with_confidence is the one of
\* validate_question on the question as it came; for an ALLOWED question the chain
\* is invoked with mask_pii(question) when mask_pii is enabled and with the question
\* itself when it is not; a blocked question is never masked.
C24_MaskingOrder ==
    Queried =>
        /\ last.question \in pii_questions =>
               last.guardrail_result \in validate_question(last.question)
        /\ (last.guardrail_result.result = ALLOWED /\ ChainInvoked) =>
               /\ last.query = IF last.mask_pii THEN last.masked ELSE last.question
               /\ (last.mask_pii /\ last.question \in pii_questions) =>
                      last.query = MaskedQuestions[last.question]
               /\ last.mask_pii <=> (\E i \in 1..Len(last.steps) : last.steps[i] = "mask_pii")
               /\ \A i, j \in 1..Len(last.steps) :
                      (last.steps[i] = "mask_pii" /\ last.steps[j] = "validate_question")
                          => j < i
        /\ last.guardrail_result.result # ALLOWED =>
               /\ \A i \in 1..Len(last.steps) : last.steps[i] # "mask_pii"
               /\ last.query = None /\ last.masked = None

\* the chain got the masked form of an allowed question with an e-mail address
C24_Witness ==
    /\ Queried /\ ChainInvoked
    /\ last.question = "Contacto: info@banco.co.mz"
    /\ last.mask_pii
    /\ last.guardrail_result.result = ALLOWED
    /\ last.query = "Contacto: [email protegido]"

(***************************************************************************)
(* Concurrent calls of validate_question, checked under SpecThreads.       *)
(***************************************************************************)
\* category, confidence, reason and issue tags of a response
Decision(r) == <<r.result, r.confidence, r.reason, r.detected_issues>>

\* C22: validate_question never changes the tables of the engine, and whatever the
\* interleaving of the calls several threads make on one engine, each call returns
\* the category, confidence, reason and issue tags it returns when run alone.
C22_ConcurrentAdmission ==
    /\ engine = setup_filters
    /\ \A t \in Threads :
        /\ threads[t].pc = "returned" =>
               Decision(threads[t].response)
                   \in { Decision(r) : r \in validate_question(threads[t].question) }
        /\ threads[t].pc = "raised" => validate_question(threads[t].question) = {}

\* a call has returned ALLOWED while the call of another thread, on another question,
\* was under way, and that other call is still between two of its checks
C22_Witness ==
    \E t, u \in Threads :
        /\ t # u
        /\ threads[t].pc = "returned" /\ threads[t].overlapped
        /\ threads[t].response.result = ALLOWED
        /\ threads[u].pc = "check_banking_relevance"
        /\ threads[u].question # threads[t].question

(***************************************************************************)
(* Concurrent calls of query_with_confidence, checked under SpecQueries.   *)
(***************************************************************************)
\* C30: whenever a call of query_with_confidence invokes the chain, the temperature
\* of the shared LLM is the temperature argument of that call, also when calls with
\* different temperatures interleave; a call that ends on the blocked path has not
\* set up the chain or the temperature.
C30_TemperatureConsistency ==
    \A t \in Threads :
        /\ \A used \in callers[t].invoked : used = callers[t].temperature
        /\ callers[t].answer_type = "blocked" => ~callers[t].setup

====
